---- MODULE Spec2Model ----
(***************************************************************************)
(* Model of the two fundamental-analysis screeners of the repository:      *)
(*   src/screener.py      class FundamentalistaBR (source: Fundamentus)    *)
(*   src/src/screener.py  class ScreenerRealBR (yfinance + Status Invest)  *)
(*                                                                         *)
(* Numbers.  The Python code computes with floats.  The model computes     *)
(* with exact rationals in fixed point:                                    *)
(*   - an indicator value is an integer number of tenths (150 is 15.0);    *)
(*   - a score is an integer number of 1/ScoreDen points, where ScoreDen   *)
(*     is a common multiple of every ceiling and floor, so that every      *)
(*     quotient x / C the code forms is exact.                             *)
(* Floating-point rounding (of the order of 1e-14) is not modelled.        *)
(*                                                                         *)
(* Optional values.  Python's None is the empty tuple <<>>, a present      *)
(* number v is the one-element tuple <<v>>.  A dict is a function whose    *)
(* DOMAIN is its set of keys, so a missing key differs from a None value.  *)
(***************************************************************************)
EXTENDS Integers, Sequences, FiniteSets, TLC

VARIABLES
    variant,        \* which script runs: "FundamentalistaBR" or "ScreenerRealBR"
    pc,             \* position of the run
    dados,          \* the indicator dict being scored
    contrib,        \* the increments `score += ...` of the last scoring, per indicator
    score_final,    \* dados['score_final'], <<>> before scoring
    classificacao,  \* dados['classificacao'], <<>> before classification
    resultados,     \* rodar_screener: the list `resultados`
    i,              \* rodar_screener: number of tickers processed so far
    historico,      \* history: per processed ticker, what each retrieval returned
                    \* (yf, status) as it was when returned, and the merged dict
    dados_yf,       \* ScreenerRealBR: the dict returned by coletar_yfinance
    dados_status,   \* ScreenerRealBR: the dict returned by coletar_status_invest
    valor_str,      \* _converter_valor: its argument, a sequence of characters
    valor,          \* _converter_valor: its result
    self,           \* the attributes of the screener object the run reads
    tabela,         \* buscar_dados_papel: the two-cell rows <td>label</td><td>value</td>
    bruto,          \* buscar_dados_papel: the dict `dados`, keyed by normalised label
    resultado,      \* buscar_dados_papel: the dict `resultado`, <<>> before mapping
    ambiente,       \* atualizar_sheets: credentials file, SPREADSHEET_ID, API answers
    ops,            \* atualizar_sheets: the calls issued on the sheet, in order
    retorno         \* atualizar_sheets: its return value, <<>> while it runs

vars == <<variant, pc, dados, contrib, score_final, classificacao, resultados, i,
          historico, dados_yf, dados_status, valor_str, valor, self, tabela, bruto,
          resultado, ambiente, ops, retorno>>

(***************************************************************************)
(* Bounds of the model.                                                    *)
(***************************************************************************)
\* lower-is-better inputs are k * ceiling / 2 for k in -1 .. MaxLowMult
MaxLowMult == 3
\* higher-is-better inputs are k * floor / 2 for k in -1 .. MaxHighMult
MaxHighMult == 5

(***************************************************************************)
(* Optional values and dicts.                                              *)
(***************************************************************************)
None == <<>>

Some(v) == <<v>>

\* dict.get(k): the value under k, None when the key is missing
Get(d, k) == IF k \in DOMAIN d THEN d[k] ELSE None

\* dict.update: the keys of b overwrite those of a
Update(a, b) == [k \in DOMAIN a \cup DOMAIN b |-> IF k \in DOMAIN b THEN b[k] ELSE a[k]]

\* Python truthiness of an optional number: None and 0 / 0.0 are falsy
Truthy(x) == x # None /\ x[1] # 0

\* Python `a or b`: a when a is truthy, else b
PyOr(a, b) == IF Truthy(a) THEN a ELSE b

Min(a, b) == IF a <= b THEN a ELSE b

RECURSIVE Gcd(_, _)
Gcd(a, b) == IF b = 0 THEN a ELSE Gcd(b, a % b)

Lcm(a, b) == (a * b) \div Gcd(a, b)

(***************************************************************************)
(* Configuration.  Thresholds are in tenths.                               *)
(***************************************************************************)
\* FundamentalistaBR.__init__: self.criterios
criterios ==
    [pl_max |-> 150, pvp_max |-> 15, dy_min |-> 40, roe_min |-> 120,
     div_bruta_patrim_max |-> 8]

\* ScreenerRealBR.calcular_score: the thresholds written in the method body
limites_real ==
    [pl_max |-> 150, pvp_max |-> 15, dy_min |-> 40, roe_min |-> 120,
     div_liq_ebitda_max |-> 30]

\* FundamentalistaBR.__init__: self.tickers (its first entries)
tickers == <<"PETR4", "VALE3", "ITUB4", "BBDC4", "BBAS3", "ABEV3", "WEGE3">>

\* ScreenerRealBR.__init__: self.tickers_br (its first entries)
tickers_br == <<"PETR4", "VALE3", "ITUB4", "BBDC4", "BBAS3", "ABEV3", "WEGE3">>

\* One score point is ScoreDen units: the least common multiple of all thresholds
ScoreDen ==
    Lcm(Lcm(Lcm(criterios.pl_max, criterios.pvp_max),
            Lcm(criterios.dy_min, criterios.roe_min)),
        Lcm(criterios.div_bruta_patrim_max, limites_real.div_liq_ebitda_max))

\* the number 1.0, and n points, in score units
One == ScoreDen

Pontos(n) == n * ScoreDen

\* the float quotient x / c, in units of 1/ScoreDen (exact: c divides ScoreDen)
Ratio(x, c) == (x * ScoreDen) \div c

(***************************************************************************)
(* Scoring, FundamentalistaBR._calcular_score (src/screener.py 155-179).   *)
(***************************************************************************)
\* mutant of Decaimento: the `1 -` forgotten
DecaimentoSemComplemento(w, x, c) == w * (IF (x * ScoreDen) \div c <= One
                                          THEN (x * ScoreDen) \div c ELSE One)

\* `score += w * (1 - min(x / c, 1))`
Decaimento(w, x, c) == w * (One - Min(Ratio(x, c), One))

\* mutant of Bonus: the cap `min(..., 2)` forgotten
BonusSemTeto(w, x, f) == w * ((x * ScoreDen) \div f)

\* `score += w * min(x / f, 2)`
Bonus(w, x, f) == w * Min(Ratio(x, f), 2 * One)

\* mutant of ContribFundamentus: an absent indicator earns half of its weight
\* (partial credit for missing data)
ContribFundamentusCreditoParcial(d) ==
    LET lido(k) == IF k \in DOMAIN d THEN d[k] ELSE <<>>
        baixo(k, w, c) == IF lido(k) = <<>> THEN (w * One) \div 2
                          ELSE IF lido(k)[1] <= c
                               THEN w * (One - Min(Ratio(lido(k)[1], c), One))
                               ELSE 0
        alto(k, w, f) == IF lido(k) = <<>> THEN (w * One) \div 2
                         ELSE IF lido(k)[1] >= f
                              THEN w * Min(Ratio(lido(k)[1], f), 2 * One)
                              ELSE 0
    IN  [pl |-> baixo("pl", 20, criterios.pl_max),
         pvp |-> baixo("pvp", 20, criterios.pvp_max),
         dy |-> alto("dy", 25, criterios.dy_min),
         roe |-> alto("roe", 25, criterios.roe_min),
         divida |-> baixo("div_brut_patrim", 10, criterios.div_bruta_patrim_max)]

\* the five `if ...: score += ...` statements, as the increment each one makes
ContribFundamentus(d) ==
    [pl   |-> IF Get(d, "pl") # None /\ d["pl"][1] <= criterios.pl_max
              THEN Decaimento(20, d["pl"][1], criterios.pl_max) ELSE 0,
     pvp  |-> IF Get(d, "pvp") # None /\ d["pvp"][1] <= criterios.pvp_max
              THEN Decaimento(20, d["pvp"][1], criterios.pvp_max) ELSE 0,
     dy   |-> IF Get(d, "dy") # None /\ d["dy"][1] >= criterios.dy_min
              THEN Bonus(25, d["dy"][1], criterios.dy_min) ELSE 0,
     roe  |-> IF Get(d, "roe") # None /\ d["roe"][1] >= criterios.roe_min
              THEN Bonus(25, d["roe"][1], criterios.roe_min) ELSE 0,
     divida |-> IF Get(d, "div_brut_patrim") # None
                   /\ d["div_brut_patrim"][1] <= criterios.div_bruta_patrim_max
                THEN Decaimento(10, d["div_brut_patrim"][1],
                                criterios.div_bruta_patrim_max)
                ELSE 0]

\* mutant of Soma: `score = 0.0` replaced by the score of the previous call,
\* as if the running total were an attribute that is never reset
SomaSobreAnterior(c) ==
    (IF score_final = <<>> THEN 0 ELSE score_final[1])
        + c.pl + c.pvp + c.dy + c.roe + c.divida

\* score = 0.0 followed by the five increments
Soma(c) == c.pl + c.pvp + c.dy + c.roe + c.divida

\* mutant of Teto: `return score`
TetoSemLimite(s) == s

\* `return min(score, 100.0)`
Teto(s) == Min(s, Pontos(100))

_calcular_score(d) == Teto(Soma(ContribFundamentus(d)))

(***************************************************************************)
(* Scoring, ScreenerRealBR.calcular_score (src/src/screener.py 137-166).   *)
(***************************************************************************)
\* `roe = dados.get('roe') or dados.get('roe_aprox')`
RoeUsado(d) == PyOr(Get(d, "roe"), Get(d, "roe_aprox"))

ContribReal(d) ==
    LET pl  == Get(d, "pl")
        pvp == Get(d, "pvp")
        dy  == Get(d, "dy")
        roe == RoeUsado(d)
        div == Get(d, "div_liq_ebitda")
    IN  [pl   |-> IF Truthy(pl) /\ 0 < pl[1] /\ pl[1] <= limites_real.pl_max
                  THEN Decaimento(20, pl[1], limites_real.pl_max) ELSE 0,
         pvp  |-> IF Truthy(pvp) /\ 0 < pvp[1] /\ pvp[1] <= limites_real.pvp_max
                  THEN Decaimento(20, pvp[1], limites_real.pvp_max) ELSE 0,
         dy   |-> IF Truthy(dy) /\ dy[1] >= limites_real.dy_min
                  THEN Bonus(25, dy[1], limites_real.dy_min) ELSE 0,
         roe  |-> IF Truthy(roe) /\ roe[1] >= limites_real.roe_min
                  THEN Bonus(25, roe[1], limites_real.roe_min) ELSE 0,
         divida |-> IF div # None /\ div[1] <= limites_real.div_liq_ebitda_max
                    THEN Decaimento(10, div[1], limites_real.div_liq_ebitda_max)
                    ELSE 0]

calcular_score(d) == Teto(Soma(ContribReal(d)))

(***************************************************************************)
(* Classification (src/screener.py 181-190, src/src/screener.py 168-177).  *)
(***************************************************************************)
\* mutant of _classificar: `score > 80`, the boundary left to the lower tier
ClassificarEstrito(score) ==
    IF score > Pontos(80) THEN "EXCELENTE"
    ELSE IF score >= Pontos(60) THEN "BOM"
    ELSE IF score >= Pontos(40) THEN "ACEITAVEL"
    ELSE "ESPECULATIVO"

\* mutant of _classificar: `score <= 60`, the second comparison turned around
ClassificarInvertido(score) ==
    IF score >= Pontos(80) THEN "EXCELENTE"
    ELSE IF score <= Pontos(60) THEN "BOM"
    ELSE IF score >= Pontos(40) THEN "ACEITAVEL"
    ELSE "ESPECULATIVO"

_classificar(score) ==
    IF score >= Pontos(80) THEN "EXCELENTE"
    ELSE IF score >= Pontos(60) THEN "BOM"
    ELSE IF score >= Pontos(40) THEN "ACEITAVEL"
    ELSE "ESPECULATIVO"

classificar(score) ==
    IF score >= Pontos(80) THEN "EXCELENTE"
    ELSE IF score >= Pontos(60) THEN "BOM"
    ELSE IF score >= Pontos(40) THEN "ACEITAVEL"
    ELSE "ESPECULATIVO"

(***************************************************************************)
(* Scoring as a pure function: SpecScore draws an indicator dict and       *)
(* applies the scoring and classification of one of the two scripts, as    *)
(* buscar_dados_papel (src/screener.py 125-126) and rodar_screener         *)
(* (src/src/screener.py 206-207) do.                                       *)
(***************************************************************************)
LowVals(c) == {(k * c) \div 2 : k \in -1 .. MaxLowMult}

HighVals(f) == {(k * f) \div 2 : k \in -1 .. MaxHighMult}

\* the approximated ROE: k * floor / 2 for k in 0 .. MaxLowMult
AproxVals(f) == {(k * f) \div 2 : k \in 0 .. MaxLowMult}

\* a key holding None or one of the numbers vals
Campo(vals) == {None} \cup {Some(v) : v \in vals}

\* the dict d without the keys outside K
Restrito(d, K) == [k \in K |-> d[k]]

\* every dict obtained by leaving keys out of a dict of B
ComChavesAusentes(B) ==
    UNION {{Restrito(d, K) : K \in SUBSET DOMAIN d} : d \in B}

\* the indicator set of the end-to-end scenario: pl=10, pvp=1.0, dy=6.0, roe=20.0,
\* debt ratio 0.5
CenarioE2E ==
    [pl |-> Some(100), pvp |-> Some(10), dy |-> Some(60), roe |-> Some(200),
     div_brut_patrim |-> Some(5)]

\* dicts with every key present, each None or a number of the grid
CompletosFundamentus ==
    [pl : Campo(LowVals(criterios.pl_max)),
     pvp : Campo(LowVals(criterios.pvp_max)),
     dy : Campo(HighVals(criterios.dy_min)),
     roe : Campo(HighVals(criterios.roe_min)),
     div_brut_patrim : Campo(LowVals(criterios.div_bruta_patrim_max))]

\* dicts with every indicator at the same multiple of its threshold
NivelFundamentus ==
    {[pl |-> Some((k * criterios.pl_max) \div 2),
      pvp |-> Some((k * criterios.pvp_max) \div 2),
      dy |-> Some((k * criterios.dy_min) \div 2),
      roe |-> Some((k * criterios.roe_min) \div 2),
      div_brut_patrim |-> Some((k * criterios.div_bruta_patrim_max) \div 2)] :
        k \in -1 .. MaxLowMult}

EntradasFundamentus ==
    CompletosFundamentus \cup ComChavesAusentes(NivelFundamentus) \cup {CenarioE2E}

CompletosReal ==
    [pl : Campo(LowVals(limites_real.pl_max)),
     pvp : Campo(LowVals(limites_real.pvp_max)),
     dy : Campo(HighVals(limites_real.dy_min)),
     roe : Campo(HighVals(limites_real.roe_min)),
     roe_aprox : Campo(AproxVals(limites_real.roe_min)),
     div_liq_ebitda : Campo(LowVals(limites_real.div_liq_ebitda_max))]

NivelReal ==
    {[pl |-> Some((k * limites_real.pl_max) \div 2),
      pvp |-> Some((k * limites_real.pvp_max) \div 2),
      dy |-> Some((k * limites_real.dy_min) \div 2),
      roe |-> Some((k * limites_real.roe_min) \div 2),
      roe_aprox |-> Some((k * limites_real.roe_min) \div 2),
      div_liq_ebitda |-> Some((k * limites_real.div_liq_ebitda_max) \div 2)] :
        k \in -1 .. MaxLowMult}

EntradasReal == CompletosReal \cup ComChavesAusentes(NivelReal)

\* the variables of label extraction and of the spreadsheet update
Alheias == <<tabela, bruto, resultado, ambiente, ops, retorno>>

InitAlheias ==
    /\ tabela = <<>>
    /\ bruto = <<>>
    /\ resultado = None
    /\ ambiente = <<>>
    /\ ops = <<>>
    /\ retorno = None

\* __init__ of either script: the attributes a run reads
InitSelf ==
    self = IF variant = "FundamentalistaBR"
           THEN [criterios |-> criterios, tickers |-> tickers]
           ELSE [tickers_br |-> tickers_br]

\* the variables the scoring specification leaves alone
Ociosas == <<resultados, i, historico, dados_yf, dados_status, valor_str, valor>>

InitOciosas ==
    /\ resultados = <<>>
    /\ i = 0
    /\ historico = <<>>
    /\ dados_yf = None
    /\ dados_status = None
    /\ valor_str = <<>>
    /\ valor = None
    /\ InitSelf
    /\ InitAlheias

InitScore ==
    /\ variant \in {"FundamentalistaBR", "ScreenerRealBR"}
    /\ pc = "entrada"
    /\ dados \in (IF variant = "FundamentalistaBR" THEN EntradasFundamentus
                  ELSE EntradasReal)
    /\ contrib = [pl |-> 0, pvp |-> 0, dy |-> 0, roe |-> 0, divida |-> 0]
    /\ score_final = None
    /\ classificacao = None
    /\ InitOciosas

\* resultado['score_final'] = self._calcular_score(resultado)
\* resultado['classificacao'] = self._classificar(resultado['score_final'])
PontuarFundamentus ==
    /\ pc = "entrada"
    /\ variant = "FundamentalistaBR"
    /\ contrib' = ContribFundamentus(dados)
    /\ score_final' = Some(_calcular_score(dados))
    /\ classificacao' = Some(_classificar(_calcular_score(dados)))
    /\ pc' = "pontuado"
    /\ UNCHANGED <<self, Alheias, variant, dados, Ociosas>>

\* dados['score_final'] = self.calcular_score(dados)
\* dados['classificacao'] = self.classificar(dados['score_final'])
PontuarReal ==
    /\ pc = "entrada"
    /\ variant = "ScreenerRealBR"
    /\ contrib' = ContribReal(dados)
    /\ score_final' = Some(calcular_score(dados))
    /\ classificacao' = Some(classificar(calcular_score(dados)))
    /\ pc' = "pontuado"
    /\ UNCHANGED <<self, Alheias, variant, dados, Ociosas>>

NextScore == PontuarFundamentus \/ PontuarReal

SpecScore == InitScore /\ [][NextScore]_vars

(***************************************************************************)
(* Claims about scoring, checked under SpecScore.                          *)
(***************************************************************************)
Pontuado == pc = "pontuado"

Fundamentus == variant = "FundamentalistaBR"

\* an optional value read straight from the dict, without dict.get
Lido(d, k) == IF k \in DOMAIN d THEN d[k] ELSE <<>>

\* the dict key of the debt indicator in each script
ChaveDivida == IF Fundamentus THEN "div_brut_patrim" ELSE "div_liq_ebitda"

TetoDivida ==
    IF Fundamentus THEN criterios.div_bruta_patrim_max
    ELSE limites_real.div_liq_ebitda_max

\* C1: for every indicator set, with each indicator absent or any finite number,
\* the score of both scripts lies in [0, 100].
C1_ScoreInRange ==
    Pontuado => 0 <= score_final[1] /\ score_final[1] <= 100 * ScoreDen

\* C1 witness: a scored dict with a negative indicator whose raw sum exceeds 100
\* points and whose score is exactly 100.
C1_Witness ==
    /\ Pontuado
    /\ \E k \in DOMAIN dados : dados[k] # <<>> /\ dados[k][1] < 0
    /\ contrib.pl + contrib.pvp + contrib.dy + contrib.roe + contrib.divida
           > 100 * ScoreDen
    /\ score_final = <<100 * ScoreDen>>

\* what C2 states for a lower-is-better indicator of value x, ceiling c, weight w
DecaimentoDeclarado(w, x, c) ==
    IF x # <<>> /\ 0 < x[1] /\ x[1] <= c
    THEN (w * ScoreDen * (c - x[1])) \div c
    ELSE 0

\* C2: a lower-is-better indicator x (P/L, P/VP, debt) with ceiling C and weight w
\* contributes w * (1 - min(x / C, 1)) when 0 < x <= C and exactly 0 otherwise,
\* so zero or negative x contributes 0 and no contribution exceeds w.
C2_LowerIsBetter ==
    Pontuado =>
        /\ contrib.pl = DecaimentoDeclarado(20, Lido(dados, "pl"), 150)
        /\ contrib.pvp = DecaimentoDeclarado(20, Lido(dados, "pvp"), 15)
        /\ contrib.divida
               = DecaimentoDeclarado(10, Lido(dados, ChaveDivida), TetoDivida)
        /\ contrib.pl <= 20 * ScoreDen
        /\ contrib.pvp <= 20 * ScoreDen
        /\ contrib.divida <= 10 * ScoreDen

\* the return on equity the scorer reads: the key roe in FundamentalistaBR, the
\* value chosen on line 157 in ScreenerRealBR
RoeLido ==
    IF Fundamentus THEN Lido(dados, "roe")
    ELSE IF Lido(dados, "roe") # <<>> /\ Lido(dados, "roe")[1] # 0
         THEN Lido(dados, "roe") ELSE Lido(dados, "roe_aprox")

\* what C3 states for a higher-is-better indicator of value x, floor f, weight w
BonusDeclarado(w, x, f) ==
    IF x # <<>> /\ x[1] >= f
    THEN (IF x[1] <= 2 * f THEN (w * ScoreDen * x[1]) \div f ELSE 2 * w * ScoreDen)
    ELSE 0

\* C3: a higher-is-better indicator x (dividend yield, return on equity) with
\* floor F and weight w contributes w * min(x / F, 2) when x >= F and exactly 0
\* when x < F, so the contribution is 0 or lies in [w, 2w].
C3_HigherIsBetter ==
    Pontuado =>
        /\ contrib.dy = BonusDeclarado(25, Lido(dados, "dy"), 40)
        /\ contrib.roe = BonusDeclarado(25, RoeLido, 120)
        /\ \A k \in {"dy", "roe"} :
               \/ contrib[k] = 0
               \/ 25 * ScoreDen <= contrib[k] /\ contrib[k] <= 50 * ScoreDen

\* C3 witness: a dividend yield strictly between the floor and twice the floor
\* earning strictly between w and 2w, with a return on equity above twice its
\* floor earning exactly 2w.
C3_Witness ==
    /\ Pontuado
    /\ 25 * ScoreDen < contrib.dy /\ contrib.dy < 50 * ScoreDen
    /\ RoeLido # <<>> /\ RoeLido[1] > 240
    /\ contrib.roe = 50 * ScoreDen

Indicadores == {"pl", "pvp", "dy", "roe", "divida"}

\* the dict keys that feed each indicator of the running script
ChavesDe(k) ==
    IF k = "divida" THEN {ChaveDivida}
    ELSE IF k = "roe" /\ ~Fundamentus THEN {"roe", "roe_aprox"}
    ELSE {k}

\* indicator k is absent from d: every key feeding it is missing or None
Ausente(d, k) == \A c \in ChavesDe(k) : c \notin DOMAIN d \/ d[c] = <<>>

\* d with indicator k replaced by absent
SemIndicador(d, k) ==
    [c \in DOMAIN d |-> IF c \in ChavesDe(k) THEN <<>> ELSE d[c]]

Pontuacao(d) == IF Fundamentus THEN _calcular_score(d) ELSE calcular_score(d)

SomaDosOutros(k) ==
    (contrib.pl + contrib.pvp + contrib.dy + contrib.roe + contrib.divida)
        - contrib[k]

\* C4: an absent indicator (None or missing key) contributes exactly 0,
\* independently of the others: scoring the dict with an indicator replaced by
\* absent gives the capped sum of the remaining contributions, never more than
\* their sum, and a dict with every indicator absent scores exactly 0.
C4_AbsentContributesZero ==
    Pontuado =>
        /\ \A k \in Indicadores : Ausente(dados, k) => contrib[k] = 0
        /\ \A k \in Indicadores :
               /\ Pontuacao(SemIndicador(dados, k)) <= SomaDosOutros(k)
               /\ Pontuacao(SemIndicador(dados, k))
                      = (IF SomaDosOutros(k) <= 100 * ScoreDen
                         THEN SomaDosOutros(k) ELSE 100 * ScoreDen)
        /\ (\A k \in Indicadores : Ausente(dados, k)) => score_final = <<0>>

\* C4 witness: a scored dict in which the key pl is missing and the score is the
\* sum of what the remaining indicators earn.
C4_Witness ==
    /\ Pontuado
    /\ "pl" \notin DOMAIN dados
    /\ "pvp" \in DOMAIN dados
    /\ contrib.dy > 0 /\ contrib.roe > 0
    /\ score_final[1] = contrib.pvp + contrib.dy + contrib.roe + contrib.divida

\* C4 second witness case: a dict with every key present and None, score 0
C4_WitnessAllAbsent ==
    /\ Pontuado
    /\ DOMAIN dados # {}
    /\ \A k \in Indicadores : Ausente(dados, k)
    /\ score_final = <<0>>

NoCenario == Pontuado /\ Fundamentus /\ dados = CenarioE2E

\* C7 as stated: the end-to-end scenario (pl=10, pvp=1.0, dy=6.0, roe=20.0, debt
\* ratio 0.5, default weights and thresholds) gives a raw sum of about 99.6, a
\* final score of 99.6 (to one decimal) and tier EXCELENTE.
C7_Original ==
    NoCenario =>
        /\ 10 * Soma(contrib) >= 995 * ScoreDen + ScoreDen \div 2
        /\ 10 * Soma(contrib) < 996 * ScoreDen + ScoreDen \div 2
        /\ 10 * score_final[1] >= 995 * ScoreDen + ScoreDen \div 2
        /\ 10 * score_final[1] < 996 * ScoreDen + ScoreDen \div 2
        /\ classificacao = <<"EXCELENTE">>

\* C7 amended: the end-to-end scenario gives a raw sum of 96.25 (6.67 + 6.67 +
\* 37.5 + 41.67 + 3.75), a final score of 96.25 and tier EXCELENTE.
C7_Amended ==
    NoCenario =>
        /\ 100 * Soma(contrib) = 9625 * ScoreDen
        /\ 100 * score_final[1] = 9625 * ScoreDen
        /\ 3 * contrib.pl = 20 * ScoreDen
        /\ 3 * contrib.pvp = 20 * ScoreDen
        /\ 2 * contrib.dy = 75 * ScoreDen
        /\ 3 * contrib.roe = 125 * ScoreDen
        /\ 4 * contrib.divida = 15 * ScoreDen
        /\ classificacao = <<"EXCELENTE">>

\* C7 witness: the scenario has been scored by FundamentalistaBR
C7_Witness == NoCenario /\ score_final # <<>> /\ score_final[1] > 0

\* C8: for return on equity the directly reported roe is used whenever it is
\* non-absent, whatever its value (0.0 included); the approximation roe_aprox is
\* used only when the direct roe is absent; with roe absent and roe_aprox = 15.0
\* the roe used is 15.0.  Stated on the return-on-equity increment of the score,
\* which is the one the roe in use earns.
C8_DirectRoeFirst ==
    (Pontuado /\ ~Fundamentus) =>
        LET direto == Lido(dados, "roe")
            devido == IF direto # <<>> THEN direto ELSE Lido(dados, "roe_aprox")
        IN  contrib.roe = BonusDeclarado(25, devido, 120)

(***************************************************************************)
(* Classification as a pure function: SpecClass draws scores of [0, 100]   *)
(* on a grid of 1/PassosPorPonto point and classifies each with either     *)
(* script, keeping the (score, tier) rows it produced: two rows, the pair  *)
(* of scores a statement of monotonicity compares.                         *)
(***************************************************************************)
\* grid steps per score point
PassosPorPonto == 2
GradeDeScores == {(k * ScoreDen) \div PassosPorPonto : k \in 0 .. 100 * PassosPorPonto}

InitClass ==
    /\ variant \in {"FundamentalistaBR", "ScreenerRealBR"}
    /\ pc = "classificar"
    /\ dados = <<>>
    /\ contrib = [pl |-> 0, pvp |-> 0, dy |-> 0, roe |-> 0, divida |-> 0]
    /\ score_final = None
    /\ classificacao = None
    /\ InitOciosas

\* resultado['classificacao'] = self._classificar(resultado['score_final'])
ClassificarFundamentus ==
    /\ pc = "classificar"
    /\ variant = "FundamentalistaBR"
    /\ Len(resultados) < 2
    /\ \E s \in GradeDeScores :
           /\ score_final' = Some(s)
           /\ classificacao' = Some(_classificar(s))
           /\ resultados' = Append(resultados,
                  [score_final |-> s, classificacao |-> _classificar(s)])
    /\ UNCHANGED <<self, Alheias, variant, pc, dados, contrib, i, historico,
                   dados_yf, dados_status, valor_str, valor>>

\* dados['classificacao'] = self.classificar(dados['score_final'])
ClassificarReal ==
    /\ pc = "classificar"
    /\ variant = "ScreenerRealBR"
    /\ Len(resultados) < 2
    /\ \E s \in GradeDeScores :
           /\ score_final' = Some(s)
           /\ classificacao' = Some(classificar(s))
           /\ resultados' = Append(resultados,
                  [score_final |-> s, classificacao |-> classificar(s)])
    /\ UNCHANGED <<self, Alheias, variant, pc, dados, contrib, i, historico,
                   dados_yf, dados_status, valor_str, valor>>

NextClass == ClassificarFundamentus \/ ClassificarReal

SpecClass == InitClass /\ [][NextClass]_vars

(***************************************************************************)
(* Claims about classification, checked under SpecClass.                   *)
(***************************************************************************)
\* the tier C5 states for a score s given in score units
TierDeclarado(s) ==
    IF s >= 80 * ScoreDen THEN "EXCELENTE"
    ELSE IF 60 * ScoreDen <= s /\ s < 80 * ScoreDen THEN "BOM"
    ELSE IF 40 * ScoreDen <= s /\ s < 60 * ScoreDen THEN "ACEITAVEL"
    ELSE IF s < 40 * ScoreDen THEN "ESPECULATIVO"
    ELSE "nenhum"

\* C5: every score of [0, 100] gets exactly one tier: >= 80 EXCELENTE, [60, 80)
\* BOM, [40, 60) ACEITAVEL, < 40 ESPECULATIVO; 80, 60 and 40 fall in the higher
\* tier.
C5_TierByCutoff ==
    \A n \in 1 .. Len(resultados) :
        /\ resultados[n].classificacao = TierDeclarado(resultados[n].score_final)
        /\ resultados[n].classificacao
               \in {"EXCELENTE", "BOM", "ACEITAVEL", "ESPECULATIVO"}

\* C5 witness: the boundary scores 80 and 60 classified, each in the higher tier
C5_Witness ==
    /\ Len(resultados) = 2
    /\ resultados[1] = [score_final |-> 80 * ScoreDen, classificacao |-> "EXCELENTE"]
    /\ resultados[2] = [score_final |-> 60 * ScoreDen, classificacao |-> "BOM"]

\* the order ESPECULATIVO < ACEITAVEL < BOM < EXCELENTE
Ordem(t) ==
    CASE t = "ESPECULATIVO" -> 0
      [] t = "ACEITAVEL" -> 1
      [] t = "BOM" -> 2
      [] t = "EXCELENTE" -> 3

\* C6: classification is total and monotonic: of two classified scores s1 < s2
\* the tier of s2 is never strictly lower than the tier of s1.
C6_Monotonic ==
    \A m, n \in 1 .. Len(resultados) :
        /\ resultados[m].classificacao
               \in {"EXCELENTE", "BOM", "ACEITAVEL", "ESPECULATIVO"}
        /\ resultados[m].score_final < resultados[n].score_final
               => Ordem(resultados[m].classificacao)
                      <= Ordem(resultados[n].classificacao)

\* C6 witness: two classified scores s1 < s2 with the tier of s2 strictly higher
C6_Witness ==
    /\ Len(resultados) = 2
    /\ resultados[1].score_final < resultados[2].score_final
    /\ resultados[1].classificacao = "ACEITAVEL"
    /\ resultados[2].classificacao = "EXCELENTE"

(***************************************************************************)
(* Value parsing, FundamentalistaBR._converter_valor (src/screener.py      *)
(* 138-153).  A string is a sequence of one-character strings.  A float is *)
(* a record: tipo "finito" with the value m / 10^d, tipo "inf" with the    *)
(* sign in m, or tipo "nan".                                               *)
(***************************************************************************)
\* longest string drawn exhaustively from Alfabeto
MaxCompr == 3

Digitos == <<"0", "1", "2", "3", "4", "5", "6", "7", "8", "9">>

EhDigito(c) == \E n \in 1 .. 10 : Digitos[n] = c

ValorDigito(c) == (CHOOSE n \in 1 .. 10 : Digitos[n] = c) - 1

\* the whitespace characters that occur in the strings drawn
Brancos == {" ", "\t"}

\* str.strip(): leading and trailing whitespace removed
RECURSIVE SemBrancosAEsquerda(_)
SemBrancosAEsquerda(s) ==
    IF s # <<>> /\ Head(s) \in Brancos THEN SemBrancosAEsquerda(Tail(s)) ELSE s

RECURSIVE SemBrancosADireita(_)
SemBrancosADireita(s) ==
    IF s # <<>> /\ s[Len(s)] \in Brancos
    THEN SemBrancosADireita(SubSeq(s, 1, Len(s) - 1)) ELSE s

Strip(s) == SemBrancosADireita(SemBrancosAEsquerda(s))

\* str.replace(c, ''): every occurrence of the character c removed
Remover(s, c) == SelectSeq(s, LAMBDA x : x # c)

\* str.replace(a, b) for single characters a and b
Trocar(s, a, b) == [n \in 1 .. Len(s) |-> IF s[n] = a THEN b ELSE s[n]]

\* str.replace('R$', ''): occurrences removed left to right, without rescanning
RECURSIVE RemoverRS(_)
RemoverRS(s) ==
    IF Len(s) < 2 THEN s
    ELSE IF s[1] = "R" /\ s[2] = "$" THEN RemoverRS(SubSeq(s, 3, Len(s)))
    ELSE <<s[1]>> \o RemoverRS(Tail(s))

\* str.lower() on the letters float() reads
Minuscula(c) ==
    CASE c = "N" -> "n" [] c = "A" -> "a" [] c = "I" -> "i" [] c = "F" -> "f"
      [] c = "T" -> "t" [] c = "Y" -> "y"
      [] OTHER -> c

\* the integer written by a sequence of digits (0 for the empty sequence)
RECURSIVE Inteiro(_)
Inteiro(s) ==
    IF s = <<>> THEN 0
    ELSE 10 * Inteiro(SubSeq(s, 1, Len(s) - 1)) + ValorDigito(s[Len(s)])

Finito(m, d) == [tipo |-> "finito", m |-> m, d |-> d]

\* float(s) on strings without exponent and underscore: <<>> stands for
\* ValueError, otherwise <<the float>>.  Blanks around are ignored, a sign may
\* lead, then inf / infinity / nan in any letter case or a decimal numeral
\* with at most one point and at least one digit.
float(s) ==
    LET t     == Strip(s)
        sinal == IF t # <<>> /\ Head(t) = "-" THEN -1 ELSE 1
        u     == IF t # <<>> /\ Head(t) \in {"-", "+"} THEN Tail(t) ELSE t
        low   == [n \in 1 .. Len(u) |-> Minuscula(u[n])]
        ponto == {n \in 1 .. Len(u) : u[n] = "."}
        digs  == Remover(u, ".")
        casas == IF ponto = {} THEN 0
                 ELSE Len(u) - (CHOOSE n \in ponto : TRUE)
    IN  IF low \in {<<"i", "n", "f">>, <<"i", "n", "f", "i", "n", "i", "t", "y">>}
        THEN <<[tipo |-> "inf", m |-> sinal, d |-> 0]>>
        ELSE IF low = <<"n", "a", "n">>
        THEN <<[tipo |-> "nan", m |-> 0, d |-> 0]>>
        ELSE IF /\ Cardinality(ponto) <= 1
                /\ digs # <<>>
                /\ \A n \in 1 .. Len(digs) : EhDigito(digs[n])
        THEN <<Finito(sinal * Inteiro(digs), casas)>>
        ELSE <<>>

\* valor_limpo.replace('R$', '').replace('.', '').replace(',', '.')
\*            .replace('%', '').strip()
Limpar(s) == Strip(Remover(Trocar(Remover(RemoverRS(s), "."), ",", "."), "%"))

\* the try block of _converter_valor; any exception gives None
_converter_valor(valor_str_) ==
    LET valor_limpo == Strip(valor_str_)
    IN  IF valor_limpo = <<>> \/ valor_limpo \in {<<"-">>, <<"N", "/", "A">>, <<>>}
        THEN None
        ELSE float(Limpar(valor_limpo))

Alfabeto ==
    {"0", "1", ".", ",", "%", "-", " ", "R", "$", "n", "a", "N", "A", "/",
     "i", "f"}

RECURSIVE Cadeias(_)
Cadeias(n) ==
    IF n = 0 THEN {<<>>}
    ELSE Cadeias(n - 1) \cup {Append(s, c) : s \in Cadeias(n - 1), c \in Alfabeto}

\* "12,5%", "R$ 10.234,56", "10.234,56", " 3,00 ", "-1,5", "1.5", "1,2,3", "N/A"
Exemplos ==
    {<<"1", "2", ",", "5", "%">>,
     <<"R", "$", " ", "1", "0", ".", "2", "3", "4", ",", "5", "6">>,
     <<"1", "0", ".", "2", "3", "4", ",", "5", "6">>,
     <<" ", "3", ",", "0", "0", " ">>,
     <<"-", "1", ",", "5">>,
     <<"1", ".", "5">>,
     <<"1", ",", "2", ",", "3">>,
     <<"N", "/", "A">>}

InitParse ==
    /\ variant = "FundamentalistaBR"
    /\ pc = "converter"
    /\ dados = <<>>
    /\ contrib = [pl |-> 0, pvp |-> 0, dy |-> 0, roe |-> 0, divida |-> 0]
    /\ score_final = None
    /\ classificacao = None
    /\ resultados = <<>>
    /\ i = 0
    /\ historico = <<>>
    /\ dados_yf = None
    /\ dados_status = None
    /\ valor_str \in Cadeias(MaxCompr) \cup Exemplos
    /\ valor = None
    /\ InitSelf
    /\ InitAlheias

\* valor = self._converter_valor(valor_raw)
ConverterValor ==
    /\ pc = "converter"
    /\ valor' = _converter_valor(valor_str)
    /\ pc' = "convertido"
    /\ UNCHANGED <<self, Alheias, variant, dados, contrib, score_final,
                   classificacao, resultados, i, historico, dados_yf,
                   dados_status, valor_str>>

NextParse == ConverterValor

SpecParse == InitParse /\ [][NextParse]_vars

(***************************************************************************)
(* Claims about value parsing, checked under SpecParse.                    *)
(***************************************************************************)
Convertido == pc = "convertido"

\* the optional float v is the finite number m / 10^d
EhNumero(v, m, d) ==
    /\ v # <<>>
    /\ v[1].tipo = "finito"
    /\ \E a, b \in 0 .. 3 :
           /\ a = v[1].d /\ b = d
           /\ v[1].m * (IF b = 0 THEN 1 ELSE IF b = 1 THEN 10 ELSE IF b = 2 THEN 100
                        ELSE 1000)
                  = m * (IF a = 0 THEN 1 ELSE IF a = 1 THEN 10 ELSE IF a = 2 THEN 100
                         ELSE 1000)

\* s writes a real number: an optional sign, then digits with at most one decimal
\* point and at least one digit (blanks around ignored)
EscreveReal(s) ==
    LET t == Strip(s)
        u == IF t # <<>> /\ Head(t) \in {"-", "+"} THEN Tail(t) ELSE t
    IN  /\ \E n \in 1 .. Len(u) : EhDigito(u[n])
        /\ \A n \in 1 .. Len(u) : EhDigito(u[n]) \/ u[n] = "."
        /\ Cardinality({n \in 1 .. Len(u) : u[n] = "."}) <= 1

\* the cleaned form of the input: markers R$ and % stripped, thousands dots
\* removed, decimal comma turned into a point
FormaLimpa(s) ==
    Strip(Remover(Trocar(Remover(RemoverRS(Strip(s)), "."), ",", "."), "%"))

\* C10 (examples): parse("12,5%") = 12.5, parse("R$ 10.234,56") = 10234.56,
\* parse("-") = parse("") = parse("N/A") = absent.
C10_Examples ==
    Convertido =>
        /\ valor_str = <<"1", "2", ",", "5", "%">> => EhNumero(valor, 125, 1)
        /\ valor_str = <<"R", "$", " ", "1", "0", ".", "2", "3", "4", ",", "5", "6">>
               => EhNumero(valor, 1023456, 2)
        /\ valor_str \in {<<"-">>, <<>>, <<"N", "/", "A">>} => valor = <<>>

\* C10: _converter_valor strips R$ and % without rescaling, removes thousands
\* dots and turns the decimal comma into a point (the stated examples), and for
\* every input whose cleaned form is not a real number the result is absent.
C10_ParseOrAbsent ==
    /\ C10_Examples
    /\ Convertido => (~EscreveReal(FormaLimpa(valor_str)) => valor = <<>>)

(***************************************************************************)
(* Label extraction and field mapping, FundamentalistaBR.buscar_dados_papel *)
(* (src/screener.py 76-126).  The page is the environment: `tabela` holds   *)
(* the rows with exactly two cells, in document order, each as the text of  *)
(* its label cell and of its value cell.  Dict keys are strings, built from *)
(* the sequences of characters the string methods work on.                  *)
(***************************************************************************)
\* longest label drawn exhaustively from AlfabetoRotulo
MaxComprRotulo == 3
\* rows of a table built from the example labels
MaxLinhasTabela == 2

Maiusculas ==
    <<"A", "B", "C", "D", "E", "F", "G", "H", "I", "J", "K", "L", "M", "N", "O",
      "P", "Q", "R", "S", "T", "U", "V", "W", "X", "Y", "Z">>

Minusculas ==
    <<"a", "b", "c", "d", "e", "f", "g", "h", "i", "j", "k", "l", "m", "n", "o",
      "p", "q", "r", "s", "t", "u", "v", "w", "x", "y", "z">>

\* str.lower()
Lower(s) ==
    [n \in 1 .. Len(s) |->
        IF \E k \in 1 .. Len(Maiusculas) : Maiusculas[k] = s[n]
        THEN Minusculas[CHOOSE k \in 1 .. Len(Maiusculas) : Maiusculas[k] = s[n]]
        ELSE s[n]]

\* the string written by a sequence of characters
RECURSIVE Texto(_)
Texto(s) == IF s = <<>> THEN "" ELSE Head(s) \o Texto(Tail(s))

\* chave_raw = cols[0].text.strip().replace(':', '').strip()
chave_raw(texto) == Strip(Remover(Strip(texto), ":"))

\* mutant of chave: `.lower()` left out
ChaveSemLower(texto) ==
    Texto(Trocar(Remover(Trocar(chave_raw(texto), " ", "_"), "."), "/", "_"))

\* chave = chave_raw.lower().replace(' ', '_').replace('.', '').replace('/', '_')
chave(texto) ==
    Texto(Trocar(Remover(Trocar(Lower(chave_raw(texto)), " ", "_"), "."), "/", "_"))

\* the dict `mapeamento`, in its order: canonical field, then its aliases
mapeamento ==
    <<[campo_alvo |-> "pl",
       possibilidades |-> <<"p_l", "pl", "price_to_earnings", "p/l">>],
      [campo_alvo |-> "pvp",
       possibilidades |-> <<"p_vp", "pvp", "price_to_book", "p/vp">>],
      [campo_alvo |-> "dy",
       possibilidades |-> <<"dy", "dividend_yield", "div_yield", "div._yield",
                            "dividendo">>],
      [campo_alvo |-> "roe",
       possibilidades |-> <<"roe", "return_on_equity", "ret_sobre_pl">>],
      [campo_alvo |-> "roic",
       possibilidades |-> <<"roic", "return_on_invested_capital">>],
      [campo_alvo |-> "div_brut_patrim",
       possibilidades |-> <<"div_brut_patrim", "div_bruta_patrim",
                            "div._brut_patrim.", "divida_bruta_patrimonio">>],
      [campo_alvo |-> "cresc_5_anos",
       possibilidades |-> <<"cresc_5_anos", "crescimento_5_anos", "cagr_5_anos">>],
      [campo_alvo |-> "liquidez_2_meses",
       possibilidades |-> <<"liq_2meses", "liquidez_2_meses", "liq._2meses">>]>>

\* the finite float v in tenths (exact for the cell values drawn, which have at
\* most one decimal)
EmDecimos(v) ==
    IF v.d = 0 THEN v.m * 10 ELSE IF v.d = 1 THEN v.m ELSE v.m \div 10

\* the loop over the rows (lines 78-92): a row whose value parses writes its
\* value under its normalised label, a later row overwriting an earlier one;
\* a row whose value does not parse writes nothing
RECURSIVE ExtrairLinhas(_, _)
ExtrairLinhas(linhas, d) ==
    IF linhas = <<>> THEN d
    ELSE LET valor_raw == Strip(Head(linhas).valor)
             v         == _converter_valor(valor_raw)
         IN  ExtrairLinhas(Tail(linhas),
                 IF v # None
                 THEN Update(d, chave(Head(linhas).rotulo) :> Some(EmDecimos(v[1])))
                 ELSE d)

\* `for chave in possibilidades: if chave in dados: ...; break`: the value under
\* the first alias that is a key of d, None when none is
PrimeiraPresente(possibilidades, d) ==
    LET presentes == {n \in 1 .. Len(possibilidades) : possibilidades[n] \in DOMAIN d}
    IN  IF presentes = {} THEN None
        ELSE d[possibilidades[CHOOSE n \in presentes : \A m \in presentes : n <= m]]

\* the dict `resultado` after the mapping loop (lines 106-122)
Mapear(ticker, d) ==
    Update([ticker |-> Some(ticker), pl |-> None, pvp |-> None, dy |-> None,
            roe |-> None, roic |-> None, div_brut_patrim |-> None,
            cresc_5_anos |-> None, liquidez_2_meses |-> None],
           [campo \in {mapeamento[n].campo_alvo : n \in 1 .. Len(mapeamento)} |->
               PrimeiraPresente(
                   mapeamento[CHOOSE n \in 1 .. Len(mapeamento) :
                                  mapeamento[n].campo_alvo = campo].possibilidades,
                   d)])

AlfabetoRotulo == {"P", "l", "/", " ", ":", "_", "."}

RECURSIVE CadeiasDe(_, _)
CadeiasDe(A, n) ==
    IF n = 0 THEN {<<>>}
    ELSE CadeiasDe(A, n - 1) \cup {Append(s, c) : s \in CadeiasDe(A, n - 1), c \in A}

\* "P/L", "P_L", "p/l", " P/L: ", "P/VP", "Div. Yield", "Div Yield",
\* "Div  Yield" (two blanks), "DIV YIELD:", "Setor"
RotulosExemplo ==
    {<<"P", "/", "L">>,
     <<"P", "_", "L">>,
     <<"p", "/", "l">>,
     <<" ", "P", "/", "L", ":", " ">>,
     <<"P", "/", "V", "P">>,
     <<"D", "i", "v", ".", " ", "Y", "i", "e", "l", "d">>,
     <<"D", "i", "v", " ", "Y", "i", "e", "l", "d">>,
     <<"D", "i", "v", " ", " ", "Y", "i", "e", "l", "d">>,
     <<"D", "I", "V", " ", "Y", "I", "E", "L", "D", ":">>,
     <<"S", "e", "t", "o", "r">>}

\* cell values "10,5", "6,0%" and "-"
ValoresCelula == {<<"1", "0", ",", "5">>, <<"6", ",", "0", "%">>, <<"-">>}

Linhas(R) == [rotulo : R, valor : ValoresCelula]

RECURSIVE SequenciasAte(_, _)
SequenciasAte(S, n) ==
    IF n = 0 THEN {<<>>}
    ELSE SequenciasAte(S, n - 1)
             \cup {Append(s, x) : s \in SequenciasAte(S, n - 1), x \in S}

\* tables of example rows, and one-row tables over every short label
Tabelas ==
    SequenciasAte(Linhas(RotulosExemplo), MaxLinhasTabela)
        \cup {<<l>> : l \in Linhas(CadeiasDe(AlfabetoRotulo, MaxComprRotulo))}

InitTabela ==
    /\ variant = "FundamentalistaBR"
    /\ pc = "extrair"
    /\ dados = <<>>
    /\ contrib = [pl |-> 0, pvp |-> 0, dy |-> 0, roe |-> 0, divida |-> 0]
    /\ score_final = None
    /\ classificacao = None
    /\ resultados = <<>>
    /\ i = 0
    /\ historico = <<>>
    /\ dados_yf = None
    /\ dados_status = None
    /\ valor_str = <<>>
    /\ valor = None
    /\ InitSelf
    /\ tabela \in Tabelas
    /\ bruto = <<>>
    /\ resultado = None
    /\ ambiente = <<>>
    /\ ops = <<>>
    /\ retorno = None

\* buscar_dados_papel(ticker) on a page that was fetched and parsed: rows
\* extracted, fields mapped, score and tier added, `return resultado`
ExtrairEMapear ==
    /\ pc = "extrair"
    /\ LET d     == ExtrairLinhas(tabela, [ticker |-> Some(tickers[1])])
           r     == Mapear(tickers[1], d)
           score == _calcular_score(r)
       IN  /\ bruto' = d
           /\ dados' = r
           /\ contrib' = ContribFundamentus(r)
           /\ score_final' = Some(score)
           /\ classificacao' = Some(_classificar(score))
           /\ resultado' = Update(r, [score_final |-> Some(score),
                                      classificacao |-> Some(_classificar(score))])
    /\ pc' = "mapeado"
    /\ UNCHANGED <<variant, Ociosas, self, tabela, ambiente, ops, retorno>>

NextTabela == ExtrairEMapear

SpecTabela == InitTabela /\ [][NextTabela]_vars

(***************************************************************************)
(* Claims about label extraction, checked under SpecTabela.                *)
(***************************************************************************)
Mapeado == pc = "mapeado"

\* the value cell of row l parses to a number
Analisavel(l) == _converter_valor(Strip(l.valor)) # None

\* the number of row l, as the dicts hold it
ValorDe(l) == Some(EmDecimos(_converter_valor(Strip(l.valor))[1]))

\* the labels "P/L", "P_L" and "p/l"
RotulosPL == {<<"P", "/", "L">>, <<"P", "_", "L">>, <<"p", "/", "l">>}

CamposCanonicos == {mapeamento[n].campo_alvo : n \in 1 .. Len(mapeamento)}

\* the aliases of a canonical field
AliasesDe(campo) ==
    LET p == mapeamento[CHOOSE n \in 1 .. Len(mapeamento) :
                            mapeamento[n].campo_alvo = campo].possibilidades
    IN  {p[n] : n \in 1 .. Len(p)}

\* C11: a row labelled "P/L", "P_L" or "p/l" with a parseable value sets the
\* canonical field pl (to its own value when it is the only row); a canonical
\* field is only ever set from a row whose normalised label is one of its
\* aliases, so a label that matches no alias sets nothing; and the handler
\* returns its dict in every case.
C11_AliasResolution ==
    Mapeado =>
        /\ resultado # None
        /\ \A n \in 1 .. Len(tabela) :
               (tabela[n].rotulo \in RotulosPL /\ Analisavel(tabela[n])) =>
                   /\ resultado["pl"] # None
                   /\ Len(tabela) = 1 => resultado["pl"] = ValorDe(tabela[n])
        /\ \A campo \in CamposCanonicos :
               resultado[campo] # None =>
                   \E n \in 1 .. Len(tabela) :
                       /\ Analisavel(tabela[n])
                       /\ chave(tabela[n].rotulo) \in AliasesDe(campo)
                       /\ resultado[campo] = ValorDe(tabela[n])

\* C11 witness: a table with a row "P/L" 10,5 and a row "Setor" 6,0%: pl is 10.5
\* and the unmapped label set no canonical field
C11_Witness ==
    /\ Mapeado
    /\ tabela = <<[rotulo |-> <<"P", "/", "L">>, valor |-> <<"1", "0", ",", "5">>],
                  [rotulo |-> <<"S", "e", "t", "o", "r">>,
                   valor |-> <<"6", ",", "0", "%">>]>>
    /\ resultado["pl"] = <<105>>
    /\ "setor" \in DOMAIN bruto
    /\ \A campo \in CamposCanonicos \ {"pl"} : resultado[campo] = None

\* the label s without the whitespace and colons at its end
RECURSIVE SemFinal(_)
SemFinal(s) ==
    IF s # <<>> /\ s[Len(s)] \in Brancos \cup {":"}
    THEN SemFinal(SubSeq(s, 1, Len(s) - 1)) ELSE s

\* every run of whitespace of s collapsed to one blank
RECURSIVE Colapsar(_)
Colapsar(s) ==
    IF s = <<>> THEN <<>>
    ELSE IF Head(s) \in Brancos
    THEN <<" ">> \o Colapsar(SemBrancosAEsquerda(s))
    ELSE <<Head(s)>> \o Colapsar(Tail(s))

\* the labels a and b differ only in letter case, surrounding whitespace, the
\* number of consecutive internal whitespace characters, or a trailing colon
DiferemSoNaForma(a, b) ==
    Colapsar(SemFinal(SemBrancosAEsquerda(Lower(a))))
        = Colapsar(SemFinal(SemBrancosAEsquerda(Lower(b))))

\* the keys the rows of the table wrote to the dict `dados`
ChavesEscritas == DOMAIN bruto \ {"ticker"}

\* C15: two raw labels that differ only in letter case, surrounding whitespace,
\* the number of consecutive internal whitespace characters, or a trailing colon
\* normalise to the same key: two rows so labelled, both with a parseable value,
\* write one key, and a canonical field the one label sets the other sets too.
C15_SameKeyForEquivalentLabels ==
    Mapeado =>
        \A m, n \in 1 .. Len(tabela) :
            (/\ Len(tabela) = 2
             /\ m # n
             /\ Analisavel(tabela[m])
             /\ Analisavel(tabela[n])
             /\ DiferemSoNaForma(tabela[m].rotulo, tabela[n].rotulo)) =>
                /\ Cardinality(ChavesEscritas) = 1
                /\ chave(tabela[m].rotulo) = chave(tabela[n].rotulo)

(***************************************************************************)
(* The screening loop, rodar_screener of both scripts (src/screener.py     *)
(* 192-207, src/src/screener.py 179-217): Spec runs one script over the    *)
(* first MaxTickers tickers of its list.  Retrieval (HTTP, HTML, yfinance) *)
(* is the environment: each collector either fails or returns a dict whose *)
(* indicators are None or a number.                                        *)
(***************************************************************************)
\* tickers processed in a run
MaxTickers == 2

NTickers == Min(MaxTickers, Len(tickers))

\* an indicator as a source delivers it: None or the number v
Talvez(v) == {None, Some(v)}

\* the dict `resultado` of buscar_dados_papel before scoring (lines 106-122)
ResultadosFundamentus(t) ==
    {[ticker |-> Some(t), pl |-> c.pl, pvp |-> c.pvp, dy |-> c.dy, roe |-> c.roe,
      roic |-> None, div_brut_patrim |-> c.div, cresc_5_anos |-> None,
      liquidez_2_meses |-> None] :
        c \in [pl : Talvez(100), pvp : Talvez(10), dy : Talvez(60),
               roe : Talvez(200), div : Talvez(5)]}

\* `dados['roe_aprox'] = (dados['pvp'] / dados['pl']) * 100`, in tenths of a
\* percent (exact on the values drawn here)
roe_aprox(pl, pvp) == (pvp * 1000) \div pl

\* the dicts coletar_yfinance returns when yfinance answers (lines 49-63)
RetornosYfinance(t) ==
    {LET base == [ticker |-> Some(t), pl |-> c.pl, pvp |-> c.pvp, dy |-> c.dy,
                  preco |-> None, volume |-> None, market_cap |-> None]
     IN  IF Truthy(c.pl) /\ Truthy(c.pvp)
         THEN Update(base, [roe_aprox |-> IF c.pl[1] # 0
                                          THEN Some(roe_aprox(c.pl[1], c.pvp[1]))
                                          ELSE None])
         ELSE base :
        c \in [pl : Talvez(50), pvp : Talvez(10), dy : Talvez(60)]}

\* the dicts coletar_status_invest returns when the page is read (lines 124-128)
RetornosStatusInvest ==
    {[roe |-> c.roe, roic |-> None, div_liq_ebitda |-> c.div] :
        c \in [roe : Talvez(150), div : Talvez(15)]}

\* mutant of TemDadosMinimos: `and` written for `or`
TemDadosMinimosTodos(d) ==
    (IF "pl" \in DOMAIN d THEN d["pl"] ELSE <<>>) # <<>>
        /\ (IF "dy" \in DOMAIN d THEN d["dy"] ELSE <<>>) # <<>>
        /\ (IF "roe" \in DOMAIN d THEN d["roe"] ELSE <<>>) # <<>>

\* `if dados.get('pl') is not None or dados.get('dy') is not None
\*     or dados.get('roe') is not None:` (src/src/screener.py 205)
TemDadosMinimos(d) ==
    Get(d, "pl") # None \/ Get(d, "dy") # None \/ Get(d, "roe") # None

Init ==
    /\ variant \in {"FundamentalistaBR", "ScreenerRealBR"}
    /\ pc = "iterar"
    /\ dados = None
    /\ contrib = [pl |-> 0, pvp |-> 0, dy |-> 0, roe |-> 0, divida |-> 0]
    /\ score_final = None
    /\ classificacao = None
    /\ InitOciosas

\* FundamentalistaBR.rodar_screener, one iteration in which buscar_dados_papel
\* returns None: blocked page, connection error or any other exception
BuscarDadosPapelFalha ==
    /\ variant = "FundamentalistaBR"
    /\ pc = "iterar"
    /\ i < NTickers
    /\ dados' = None
    /\ historico' = Append(historico,
           [ticker |-> self.tickers[i + 1], falhou |-> {"fundamentus"}, dados |-> None,
            yf |-> None, status |-> None])
    /\ i' = i + 1
    /\ UNCHANGED <<self, Alheias, variant, pc, contrib, score_final,
                   classificacao, resultados, dados_yf, dados_status,
                   valor_str, valor>>

\* FundamentalistaBR.rodar_screener, one iteration in which buscar_dados_papel
\* returns its dict: fields mapped, score and tier added, `if dados:` true,
\* resultados.append(dados)
BuscarDadosPapel ==
    /\ variant = "FundamentalistaBR"
    /\ pc = "iterar"
    /\ i < NTickers
    /\ \E res \in ResultadosFundamentus(self.tickers[i + 1]) :
           LET score == _calcular_score(res)
               linha == Update(res,
                               [score_final |-> Some(score),
                                classificacao |-> Some(_classificar(score))])
           IN  /\ contrib' = ContribFundamentus(res)
               /\ score_final' = Some(score)
               /\ classificacao' = Some(_classificar(score))
               /\ dados' = linha
               /\ resultados' = Append(resultados, linha)
               /\ historico' = Append(historico,
                      [ticker |-> self.tickers[i + 1], falhou |-> {}, dados |-> res,
                       yf |-> None, status |-> None])
    /\ i' = i + 1
    /\ UNCHANGED <<self, Alheias, variant, pc, dados_yf, dados_status,
                   valor_str, valor>>

\* ScreenerRealBR.rodar_screener: dados = self.coletar_yfinance(ticker); an
\* exception inside gives {'ticker': ticker}
ColetarYfinance ==
    /\ variant = "ScreenerRealBR"
    /\ pc = "iterar"
    /\ i < NTickers
    /\ \/ /\ dados_yf' \in RetornosYfinance(self.tickers_br[i + 1])
          /\ historico' = Append(historico,
                 [ticker |-> self.tickers_br[i + 1], falhou |-> {}, dados |-> None,
                  yf |-> dados_yf', status |-> None])
       \/ /\ dados_yf' = [ticker |-> Some(self.tickers_br[i + 1])]
          /\ historico' = Append(historico,
                 [ticker |-> self.tickers_br[i + 1], falhou |-> {"yfinance"},
                  dados |-> None, yf |-> dados_yf', status |-> None])
    /\ dados' = dados_yf'
    /\ dados_status' = None
    /\ pc' = "status"
    /\ UNCHANGED <<self, Alheias, variant, contrib, score_final,
                   classificacao, resultados, i, valor_str, valor>>

\* ScreenerRealBR.rodar_screener: dados_status = self.coletar_status_invest(ticker);
\* not found, connection error or any exception gives {}
ColetarStatusInvest ==
    /\ variant = "ScreenerRealBR"
    /\ pc = "status"
    /\ \/ /\ dados_status' \in RetornosStatusInvest
          /\ historico' = [historico EXCEPT ![Len(historico)].status = dados_status']
       \/ /\ dados_status' = <<>>
          /\ historico' = [historico EXCEPT
                               ![Len(historico)].falhou = @ \cup {"status_invest"},
                               ![Len(historico)].status = dados_status']
    /\ pc' = "fundir"
    /\ UNCHANGED <<self, Alheias, variant, dados, contrib, score_final,
                   classificacao, resultados, i, dados_yf, valor_str, valor>>

\* ScreenerRealBR.rodar_screener: dados.update(dados_status), then score, tier
\* and append only when pl, dy or roe is present.  `dados` is the very dict
\* coletar_yfinance returned, so what is written to it shows in dados_yf.
FundirEPontuar ==
    /\ variant = "ScreenerRealBR"
    /\ pc = "fundir"
    /\ LET fundido == Update(dados, dados_status)
           score   == calcular_score(fundido)
           linha   == Update(fundido,
                             [score_final |-> Some(score),
                              classificacao |-> Some(classificar(score))])
       IN  /\ historico' = [historico EXCEPT ![Len(historico)].dados = fundido]
           /\ IF TemDadosMinimos(fundido)
              THEN /\ contrib' = ContribReal(fundido)
                   /\ score_final' = Some(score)
                   /\ classificacao' = Some(classificar(score))
                   /\ dados' = linha
                   /\ dados_yf' = linha
                   /\ resultados' = Append(resultados, linha)
              ELSE /\ dados' = fundido
                   /\ dados_yf' = fundido
                   /\ UNCHANGED <<contrib, score_final, classificacao, resultados>>
    /\ i' = i + 1
    /\ pc' = "iterar"
    /\ UNCHANGED <<self, Alheias, variant, dados_status, valor_str, valor>>

\* both scripts: the loop is over, `return pd.DataFrame(resultados)`
Retornar ==
    /\ pc = "iterar"
    /\ i = NTickers
    /\ pc' = "fim"
    /\ UNCHANGED <<self, Alheias, variant, dados, contrib, score_final,
                   classificacao, resultados, i, historico, dados_yf,
                   dados_status, valor_str, valor>>

Next ==
    \/ BuscarDadosPapelFalha
    \/ BuscarDadosPapel
    \/ ColetarYfinance
    \/ ColetarStatusInvest
    \/ FundirEPontuar
    \/ Retornar

Spec == Init /\ [][Next]_vars

(***************************************************************************)
(* Claims about the screening loop, checked under Spec.                    *)
(***************************************************************************)
\* the tickers whose iteration is complete, as entries of historico
Processados ==
    {n \in 1 .. Len(historico) : n <= i}

\* the rows of resultados that belong to the ticker t
LinhasDe(t) == {n \in 1 .. Len(resultados) : resultados[n]["ticker"] = <<t>>}

\* the row of ticker t carries the score and tier of the dict d
LinhaPontuada(t, d) ==
    \A n \in LinhasDe(t) :
        /\ resultados[n]["score_final"] = <<Pontuacao(d)>>
        /\ resultados[n]["classificacao"]
               = <<IF Fundamentus THEN _classificar(Pontuacao(d))
                   ELSE classificar(Pontuacao(d))>>

\* no indicator read by the scorer is present in d
NadaUtilizavel(d) ==
    \A k \in {"pl", "pvp", "dy", "roe", "roe_aprox", "div_brut_patrim",
              "div_liq_ebitda"} : k \notin DOMAIN d \/ d[k] = <<>>

C9_WitnessFundamentus ==
    /\ Fundamentus
    /\ i >= 1
    /\ historico[1].falhou = {}
    /\ NadaUtilizavel(historico[1].dados)
    /\ Len(resultados) >= 1
    /\ resultados[1]["score_final"] = <<0>>
    /\ resultados[1]["classificacao"] = <<"ESPECULATIVO">>

\* C12: the merge step of ScreenerRealBR.rodar_screener mutates neither input
\* record: after it the dict coletar_yfinance returned and the dict
\* coletar_status_invest returned each hold exactly the keys and values they had
\* when returned (the merged result being a new record).
C12_MergeKeepsInputs ==
    (~Fundamentus /\ pc = "iterar" /\ i >= 1) =>
        /\ dados_yf = historico[i].yf
        /\ dados_status = historico[i].status

(***************************************************************************)
(* Configuration errors.  FundamentalistaBR keeps its thresholds in the    *)
(* public attribute self.criterios, which _calcular_score reads on every   *)
(* call; the tier cutoffs are literals of _classificar.  SpecConfig runs   *)
(* rodar_screener on an object whose criterios hold the default values or  *)
(* a zero in pl_max or dy_min, as in                                       *)
(*     s = FundamentalistaBR(); s.criterios['dy_min'] = 0.0                *)
(* In Python a float division by zero raises ZeroDivisionError.            *)
(***************************************************************************)
Configuracoes ==
    {[criterios EXCEPT !.pl_max = a, !.dy_min = b] :
        a \in {criterios.pl_max, 0}, b \in {criterios.dy_min, 0}}

\* the thresholds _calcular_score divides by under the criteria c: each `if`
\* statement whose condition holds divides by its threshold
Divisores(c, d) ==
    (IF Get(d, "pl") # None /\ d["pl"][1] <= c.pl_max THEN {c.pl_max} ELSE {})
    \cup (IF Get(d, "pvp") # None /\ d["pvp"][1] <= c.pvp_max
          THEN {c.pvp_max} ELSE {})
    \cup (IF Get(d, "dy") # None /\ d["dy"][1] >= c.dy_min THEN {c.dy_min} ELSE {})
    \cup (IF Get(d, "roe") # None /\ d["roe"][1] >= c.roe_min
          THEN {c.roe_min} ELSE {})
    \cup (IF Get(d, "div_brut_patrim") # None
             /\ d["div_brut_patrim"][1] <= c.div_bruta_patrim_max
          THEN {c.div_bruta_patrim_max} ELSE {})

\* _calcular_score raises ZeroDivisionError
LevantaZeroDivisionError(c, d) == 0 \in Divisores(c, d)

\* the five increments of _calcular_score under the criteria c, when none raises
ContribSob(c, d) ==
    [pl   |-> IF Get(d, "pl") # None /\ d["pl"][1] <= c.pl_max
              THEN Decaimento(20, d["pl"][1], c.pl_max) ELSE 0,
     pvp  |-> IF Get(d, "pvp") # None /\ d["pvp"][1] <= c.pvp_max
              THEN Decaimento(20, d["pvp"][1], c.pvp_max) ELSE 0,
     dy   |-> IF Get(d, "dy") # None /\ d["dy"][1] >= c.dy_min
              THEN Bonus(25, d["dy"][1], c.dy_min) ELSE 0,
     roe  |-> IF Get(d, "roe") # None /\ d["roe"][1] >= c.roe_min
              THEN Bonus(25, d["roe"][1], c.roe_min) ELSE 0,
     divida |-> IF Get(d, "div_brut_patrim") # None
                   /\ d["div_brut_patrim"][1] <= c.div_bruta_patrim_max
                THEN Decaimento(10, d["div_brut_patrim"][1], c.div_bruta_patrim_max)
                ELSE 0]

InitConfig ==
    /\ variant = "FundamentalistaBR"
    /\ pc = "iterar"
    /\ dados = None
    /\ contrib = [pl |-> 0, pvp |-> 0, dy |-> 0, roe |-> 0, divida |-> 0]
    /\ score_final = None
    /\ classificacao = None
    /\ resultados = <<>>
    /\ i = 0
    /\ historico = <<>>
    /\ dados_yf = None
    /\ dados_status = None
    /\ valor_str = <<>>
    /\ valor = None
    /\ self \in [criterios : Configuracoes, tickers : {tickers}]
    /\ InitAlheias

\* one iteration of rodar_screener in which the page was read: the fields are
\* mapped and scored under self.criterios; an exception raised by the scoring is
\* caught by `except Exception` (line 134), which prints it and returns None, so
\* that `if dados:` is false and the ticker gets no row
BuscarDadosPapelSob ==
    /\ pc = "iterar"
    /\ i < NTickers
    /\ \E res \in ResultadosFundamentus(self.tickers[i + 1]) :
           IF LevantaZeroDivisionError(self.criterios, res)
           THEN /\ dados' = None
                /\ historico' = Append(historico,
                       [ticker |-> self.tickers[i + 1],
                        falhou |-> {"ZeroDivisionError"}, dados |-> res,
                        yf |-> None, status |-> None])
                /\ UNCHANGED <<contrib, score_final, classificacao, resultados>>
           ELSE LET score == Teto(Soma(ContribSob(self.criterios, res)))
                    linha == Update(res,
                                    [score_final |-> Some(score),
                                     classificacao |-> Some(_classificar(score))])
                IN  /\ contrib' = ContribSob(self.criterios, res)
                    /\ score_final' = Some(score)
                    /\ classificacao' = Some(_classificar(score))
                    /\ dados' = linha
                    /\ resultados' = Append(resultados, linha)
                    /\ historico' = Append(historico,
                           [ticker |-> self.tickers[i + 1], falhou |-> {},
                            dados |-> res, yf |-> None, status |-> None])
    /\ i' = i + 1
    /\ UNCHANGED <<self, Alheias, variant, pc, dados_yf, dados_status,
                   valor_str, valor>>

NextConfig == BuscarDadosPapelSob \/ BuscarDadosPapelFalha \/ Retornar

SpecConfig == InitConfig /\ [][NextConfig]_vars

\* a threshold of the criteria is not positive
ConfiguracaoInvalida ==
    \E k \in DOMAIN self.criterios : self.criterios[k] <= 0

\* under the default criteria the run of SpecConfig is the run of Spec
ContribSobPadrao ==
    \A n \in 1 .. Len(historico) :
        (self.criterios = criterios /\ historico[n].dados # None) =>
            /\ ContribSob(criterios, historico[n].dados)
                   = ContribFundamentus(historico[n].dados)
            /\ ~LevantaZeroDivisionError(criterios, historico[n].dados)

\* C13: a configuration error (a non-positive threshold such as pl_max = 0 or
\* dy_min = 0) is surfaced once at load time, before any instrument is
\* processed: under an invalid configuration no ticker is ever fetched, scored,
\* dropped or reported.
C13_ConfigErrorAtLoad ==
    ConfiguracaoInvalida => (i = 0 /\ historico = <<>> /\ resultados = <<>>)

(***************************************************************************)
(* Statelessness of the loop, checked under Spec.                          *)
(***************************************************************************)
\* the attributes as __init__ left them
SelfInicial ==
    IF Fundamentus THEN [criterios |-> criterios, tickers |-> tickers]
    ELSE [tickers_br |-> tickers_br]

\* what the sources delivered for the n-th ticker, the ticker's name left out
Observado(n) ==
    LET h == historico[n]
        semTicker(d) == IF d = None THEN None ELSE Restrito(d, DOMAIN d \ {"ticker"})
    IN  [falhou |-> h.falhou,
         fontes |-> IF Fundamentus THEN <<semTicker(h.dados)>>
                    ELSE <<semTicker(h.yf), h.status>>]

\* the row a run over the n-th ticker alone appends, None when it appends none
LinhaIsolada(n) ==
    LET h == historico[n]
        d == IF Fundamentus THEN h.dados
             ELSE [k \in DOMAIN h.yf \cup DOMAIN h.status |->
                      IF k \in DOMAIN h.status THEN h.status[k] ELSE h.yf[k]]
        lido(k) == IF k \in DOMAIN d THEN d[k] ELSE <<>>
        s == Pontuacao(d)
        t == IF Fundamentus THEN _classificar(s) ELSE classificar(s)
    IN  IF Fundamentus /\ h.falhou # {} THEN None
        ELSE IF ~Fundamentus
                /\ lido("pl") = <<>> /\ lido("dy") = <<>> /\ lido("roe") = <<>>
        THEN None
        ELSE [k \in DOMAIN d \cup {"score_final", "classificacao"} |->
                 IF k = "score_final" THEN <<s>>
                 ELSE IF k = "classificacao" THEN <<t>>
                 ELSE d[k]]

\* the rows of the ticker t, as a set
LinhasDoTicker(t) == {resultados[n] : n \in LinhasDe(t)}

\* C14: over a run of rodar_screener with any mix of successful and failed
\* retrievals the criteria and the ticker list stay as __init__ left them, every
\* processed ticker has exactly the row (or no row) that processing it alone
\* gives, and two tickers for which the sources delivered the same observations
\* get the same score and tier, whatever was processed before them.
C14_NoStateAcrossInstruments ==
    /\ self = SelfInicial
    /\ \A n \in Processados :
           LET l == LinhaIsolada(n)
           IN  LinhasDoTicker(historico[n].ticker) = (IF l = None THEN {} ELSE {l})
    /\ \A m, n \in Processados :
           (m < n /\ Observado(m) = Observado(n)) =>
               {<<l["score_final"], l["classificacao"]>> :
                    l \in LinhasDoTicker(historico[m].ticker)}
                   = {<<l["score_final"], l["classificacao"]>> :
                          l \in LinhasDoTicker(historico[n].ticker)}

\* C14 witness: a finished run of ScreenerRealBR in which Status Invest failed
\* for the first ticker only, both tickers got a row, the rows differ in score,
\* and the attributes are as __init__ left them
C14_Witness ==
    /\ ~Fundamentus
    /\ pc = "fim"
    /\ self = SelfInicial
    /\ Len(historico) = 2
    /\ historico[1].falhou = {"status_invest"}
    /\ historico[2].falhou = {}
    /\ Len(resultados) = 2
    /\ resultados[1]["score_final"][1] > resultados[2]["score_final"][1]
    /\ resultados[2]["score_final"][1] > 0

\* C14 second witness case: a finished run in which two tickers with the same
\* observations got rows with the same positive score
C14_WitnessSameObservations ==
    /\ pc = "fim"
    /\ Len(historico) = 2
    /\ Observado(1) = Observado(2)
    /\ Len(resultados) = 2
    /\ resultados[1]["score_final"] = resultados[2]["score_final"]
    /\ resultados[1]["score_final"][1] > 0

(***************************************************************************)
(* Spreadsheet update, atualizar_sheets of both scripts (src/screener.py   *)
(* 209-261, src/src/screener.py 219-287).  The file system, the process    *)
(* environment and the Google API are the environment, fixed in            *)
(* `ambiente` when the call starts: whether credentials.json exists, the   *)
(* value of SPREADSHEET_ID, what open_by_key answers, which other call (if *)
(* any) raises, and the number of rows of df.  `ops` logs every call       *)
(* issued on the sheet with whether it completed.  One action is one step  *)
(* of the method, so that the order of the calls is visible.               *)
(***************************************************************************)
\* most rows of the DataFrame passed in
MaxLinhasDf == 2

\* answers of client.open_by_key(...).sheet1: the sheet, or an APIError whose
\* text holds the status
RespostasAbrir == {"ok", "403", "404", "500"}

\* the calls that may raise besides open_by_key; "nenhuma" when none does
PontosDeFalha == {"nenhuma", "authorize", "clear", "append_row", "append_rows"}

Ambientes ==
    [credenciais : BOOLEAN,
     spreadsheet_id : {None, Some(""), Some("1AbC")},
     abrir : RespostasAbrir,
     falha : PontosDeFalha,
     linhas : 0 .. MaxLinhasDf]

\* `not spreadsheet_id`: os.getenv gave None or the empty string
NaoConfigurado(spreadsheet_id) == spreadsheet_id = None \/ spreadsheet_id[1] = ""

\* mutant of ProximoAposAbrir: the failure of open_by_key swallowed, the method
\* goes on to the update
ProximoAposAbrirSemTeste(resposta) == "clear"

\* where the method stands after open_by_key: at sheet.clear() when the sheet
\* was opened; returned False otherwise (ScreenerRealBR: `return False` on 403
\* and 404, `raise` into `except Exception` otherwise; FundamentalistaBR:
\* `except Exception` for every error)
ProximoAposAbrir(resposta) == IF resposta = "ok" THEN "clear" ELSE "retornou"

InitSheets ==
    /\ variant \in {"FundamentalistaBR", "ScreenerRealBR"}
    /\ pc = "credenciais"
    /\ dados = <<>>
    /\ contrib = [pl |-> 0, pvp |-> 0, dy |-> 0, roe |-> 0, divida |-> 0]
    /\ score_final = None
    /\ classificacao = None
    /\ resultados = <<>>
    /\ i = 0
    /\ historico = <<>>
    /\ dados_yf = None
    /\ dados_status = None
    /\ valor_str = <<>>
    /\ valor = None
    /\ InitSelf
    /\ tabela = <<>>
    /\ bruto = <<>>
    /\ resultado = None
    /\ ambiente \in Ambientes
    /\ ops = <<>>
    /\ retorno = None

\* the variables atualizar_sheets leaves alone
ForaDaPlanilha ==
    <<variant, dados, contrib, score_final, classificacao, Ociosas, self, tabela,
      bruto, resultado, ambiente>>

\* `if not os.path.exists('credentials.json'): return False`
VerificarCredenciais ==
    /\ pc = "credenciais"
    /\ IF ambiente.credenciais
       THEN pc' = "autorizar" /\ retorno' = retorno
       ELSE pc' = "retornou" /\ retorno' = Some(FALSE)
    /\ UNCHANGED <<ForaDaPlanilha, ops>>

\* creds = ServiceAccountCredentials.from_json_keyfile_name(...);
\* client = gspread.authorize(creds); an exception goes to `except Exception`
Autorizar ==
    /\ pc = "autorizar"
    /\ IF ambiente.falha = "authorize"
       THEN pc' = "retornou" /\ retorno' = Some(FALSE)
       ELSE pc' = "id" /\ retorno' = retorno
    /\ UNCHANGED <<ForaDaPlanilha, ops>>

\* spreadsheet_id = os.getenv('SPREADSHEET_ID');
\* `if not spreadsheet_id: return False`
ObterSpreadsheetId ==
    /\ pc = "id"
    /\ IF NaoConfigurado(ambiente.spreadsheet_id)
       THEN pc' = "retornou" /\ retorno' = Some(FALSE)
       ELSE pc' = "abrir" /\ retorno' = retorno
    /\ UNCHANGED <<ForaDaPlanilha, ops>>

\* sheet = client.open_by_key(spreadsheet_id).sheet1 and, when it succeeds, the
\* building of headers and dados_linhas
AbrirPlanilha ==
    /\ pc = "abrir"
    /\ pc' = ProximoAposAbrir(ambiente.abrir)
    /\ retorno' = IF pc' = "retornou" THEN Some(FALSE) ELSE retorno
    /\ UNCHANGED <<ForaDaPlanilha, ops>>

\* sheet.clear()
Clear ==
    /\ pc = "clear"
    /\ ops' = Append(ops, [op |-> "clear", ok |-> ambiente.falha # "clear"])
    /\ IF ambiente.falha = "clear"
       THEN pc' = "retornou" /\ retorno' = Some(FALSE)
       ELSE pc' = "append_row" /\ retorno' = retorno
    /\ UNCHANGED ForaDaPlanilha

\* sheet.append_row(headers)
AppendRow ==
    /\ pc = "append_row"
    /\ ops' = Append(ops, [op |-> "append_row", ok |-> ambiente.falha # "append_row"])
    /\ IF ambiente.falha = "append_row"
       THEN pc' = "retornou" /\ retorno' = Some(FALSE)
       ELSE pc' = "append_rows" /\ retorno' = retorno
    /\ UNCHANGED ForaDaPlanilha

\* sheet.append_rows(dados_linhas), the final prints and `return True`.  The
\* print of ScreenerRealBR reads df.iloc[0], which raises IndexError on a
\* DataFrame without rows: `except Exception` then returns False.
AppendRows ==
    /\ pc = "append_rows"
    /\ ops' = Append(ops, [op |-> "append_rows", ok |-> ambiente.falha # "append_rows"])
    /\ pc' = "retornou"
    /\ retorno' = IF ambiente.falha = "append_rows" THEN Some(FALSE)
                  ELSE IF variant = "ScreenerRealBR" /\ ambiente.linhas = 0
                  THEN Some(FALSE)
                  ELSE Some(TRUE)
    /\ UNCHANGED ForaDaPlanilha

NextSheets ==
    \/ VerificarCredenciais
    \/ Autorizar
    \/ ObterSpreadsheetId
    \/ AbrirPlanilha
    \/ Clear
    \/ AppendRow
    \/ AppendRows

SpecSheets == InitSheets /\ [][NextSheets]_vars

(***************************************************************************)
(* Claims about the spreadsheet update, checked under SpecSheets.          *)
(***************************************************************************)
\* the names of the calls issued so far, in order
OpsEmitidas == [n \in 1 .. Len(ops) |-> ops[n].op]

OrdemDeclarada == <<"clear", "append_row", "append_rows">>

\* C16: the sheet is cleared only after credentials.json was found,
\* SPREADSHEET_ID was set and the sheet was opened; the calls on the sheet are
\* issued in the order clear, header row, data rows, each after the one before
\* it completed; when the call returns False with the credentials missing, the
\* ID unset or open_by_key answering 403 or 404, no clear or append has been
\* issued; and it returns True only if all three calls completed.
C16_ClearOnlyAfterOpen ==
    /\ ops # <<>> =>
           /\ ambiente.credenciais
           /\ ambiente.spreadsheet_id \notin {<<>>, <<"">>}
           /\ ambiente.abrir = "ok"
    /\ Len(ops) <= Len(OrdemDeclarada)
    /\ OpsEmitidas = SubSeq(OrdemDeclarada, 1, Len(ops))
    /\ \A n \in 1 .. Len(ops) - 1 : ops[n].ok
    /\ (/\ retorno = <<FALSE>>
        /\ \/ ~ambiente.credenciais
           \/ ambiente.spreadsheet_id \in {<<>>, <<"">>}
           \/ ambiente.abrir \in {"403", "404"}) => ops = <<>>
    /\ retorno = <<TRUE>> =>
           /\ OpsEmitidas = OrdemDeclarada
           /\ \A n \in 1 .. Len(ops) : ops[n].ok

\* C16 witness: a call that returned True after clear, header append and data
\* append completed in this order
C16_Witness ==
    /\ pc = "retornou"
    /\ retorno = <<TRUE>>
    /\ ops = <<[op |-> "clear", ok |-> TRUE], [op |-> "append_row", ok |-> TRUE],
               [op |-> "append_rows", ok |-> TRUE]>>

\* C16 second witness case: a call of ScreenerRealBR that returned False on a 403
\* of open_by_key with the credentials found and the ID set, nothing issued
C16_Witness403 ==
    /\ ~Fundamentus
    /\ pc = "retornou"
    /\ retorno = <<FALSE>>
    /\ ambiente.credenciais
    /\ ambiente.spreadsheet_id = <<"1AbC">>
    /\ ambiente.abrir = "403"
    /\ ops = <<>>

====
